---- MODULE Spec2Model ----
(***************************************************************************)
(* Result store of Replicate Studio (src/src/lib/storage.ts) together with *)
(* the main-process file handlers it calls (src/electron/main.cjs).        *)
(*                                                                         *)
(* The store runs in one of two modes for a whole process lifetime:        *)
(*   - document-store mode (browser): a Dexie table `results`;             *)
(*   - file-system mode (Electron): media files in the storage directory,  *)
(*     provenance embedded in each file's tags by exiftool.                *)
(*                                                                         *)
(* Each exported function of storage.ts is one action; the IPC handlers    *)
(* and helpers it awaits are operators on the directory / table value.     *)
(***************************************************************************)
EXTENDS Integers, Sequences, FiniteSets, TLC

VARIABLES
    isElectron,       \* storage.ts:5      hosting environment, fixed per process
    exiftoolWorks,    \* main.cjs:60-96    whether exiftool can be executed
    db,               \* storage.ts:7-18   Dexie table `results` (set of records)
    disk,             \* main.cjs:132-145  storage directory, in listing order
    maxResults,       \* main.cjs:103      retention setting held by the main process
    filenamePrefix,   \* storage.ts:78     localStorage 'filename_prefix'
    clock,            \* Date.now() / new Date()
    nextPred,         \* prediction ids handed out by the remote API so far
    nextUuid,         \* crypto.randomUUID() values handed out so far
    last,             \* the last completed call: its arguments and its outcome
    index,            \* main.cjs:326-354 metadata.json of the consolidated-index scheme
    legacyCalls,      \* part_005         calls of the consolidated-index scheme in progress
    sidecarCalls,     \* storage.ts       calls of the sidecar scheme in progress, by await point
    run,              \* PredictionRunner.tsx:246-471 handleRun in progress
    settings,         \* main.cjs:111-129  settings.json in the userData directory
    storagePath       \* main.cjs:102      storage path held by the main process

\* What the calls taken as a whole leave alone.
stepVars == <<index, legacyCalls, sidecarCalls, run>>

vars == <<isElectron, exiftoolWorks, db, disk, maxResults, filenamePrefix,
          clock, nextPred, nextUuid, last, index, legacyCalls, sidecarCalls, run,
          settings, storagePath>>

----------------------------------------------------------------------------
(* Bounds of the model *)

MaxClock   == 3    \* last value of the clock
MaxOutputs == 2    \* outputs of one job
MaxStored  == 2    \* files in the directory / records in the table
MaxRetries == 1    \* largest auto_retry_count setting

\* The calendar day changes at the last tick of the clock.
DayLength == MaxClock

(* Program constants *)

DefaultMaxResults == 200   \* main.cjs:103
NumWidth          == 3     \* storage.ts:52 (\d{3}) and storage.ts:67 (padStart(3,'0'))
TruncLimit        == 400   \* main.cjs:481
RunnerKeep        == 100   \* PredictionRunner.tsx:360 cleanupOldResults(100)

----------------------------------------------------------------------------
(* Values *)

Max(S) == CHOOSE x \in S : \A y \in S : y <= x
SeqToSet(q) == {q[i] : i \in 1..Len(q)}

\* A string-valued or array-valued input parameter.  kind "text" is an
\* ordinary string of `len` characters, "data" a data: URL of `len`
\* characters, "list" an array of `len` data: URLs; `cut` marks a string that
\* is the first TruncLimit characters of the original followed by '...'.
Val(kind, len) == [kind |-> kind, len |-> len, cut |-> FALSE]
ImagePlaceholder    == Val("imagePlaceholder", 12)          \* '[image data]'
ImagesPlaceholder(n) == [kind |-> "imagesPlaceholder", len |-> n, cut |-> FALSE]

InputPlain  == [prompt |-> Val("text", 12)]
InputBinary == [prompt |-> Val("text", 401), image |-> Val("data", 900)]
EmptyInput  == [k \in {} |-> Val("text", 0)]

\* model.category decides the type handed to saveResult
\* (PredictionRunner.tsx:356).
CategoryType(m) == IF m = "acme/vid" THEN "video" ELSE "image"

NoTags == [json |-> <<>>, artist |-> ""]

UuidId(n) == [uuid |-> n]

NoFilter == [type |-> "", model |-> ""]
Filters  == {NoFilter, [type |-> "video", model |-> ""],
             [type |-> "image", model |-> ""], [type |-> "", model |-> "acme/img"]}

----------------------------------------------------------------------------
(* File names: {YYMMDD}_{prefix}_{NNN}.{ext}, kept as their four parts; the
   number is the string of decimal digits that appears in the name. *)

RECURSIVE ToDigits(_)
ToDigits(n) == IF n < 10 THEN <<n>> ELSE Append(ToDigits(n \div 10), n % 10)

RECURSIVE PadStart(_, _)
PadStart(ds, w) == IF Len(ds) >= w THEN ds ELSE PadStart(<<0>> \o ds, w)

RECURSIVE ParseInt(_)
ParseInt(ds) ==
    IF Len(ds) = 0 THEN 0
    ELSE 10 * ParseInt(SubSeq(ds, 1, Len(ds) - 1)) + ds[Len(ds)]

FileName(date, prefix, n, ext) ==
    [date |-> date, prefix |-> prefix, num |-> PadStart(ToDigits(n), NumWidth), ext |-> ext]

DateOf(t) == t \div DayLength

MediaExts == {"jpg", "jpeg", "png", "gif", "webp", "mp4", "webm"}
VideoExts == {"mp4", "webm"}
TagExts   == {"png", "jpg", "jpeg", "mp4", "mov"}

IsMediaFile(name) == name.ext \in MediaExts
ExtType(ext) == IF ext \in VideoExts THEN "video" ELSE "image"

----------------------------------------------------------------------------
(* Main-process handlers (src/electron/main.cjs), as operators on the
   directory value d: a sequence of [name, birth, tags]. *)

Names(d) == {d[i].name : i \in 1..Len(d)}
IndexOf(d, name) == CHOOSE i \in 1..Len(d) : d[i].name = name
FileAt(d, name) == d[IndexOf(d, name)]

ListFiles(d) == [i \in 1..Len(d) |-> d[i].name]

SaveFile(d, name, now) ==
    IF name \in Names(d)
    THEN [d EXCEPT ![IndexOf(d, name)] = [name |-> name, birth |-> @.birth, tags |-> NoTags]]
    ELSE Append(d, [name |-> name, birth |-> now, tags |-> NoTags])

\* Variant: a missing name removes the oldest listed file instead of nothing.
DeleteFileOrFirst(d, name) ==
    IF name \in Names(d)
    THEN SelectSeq(d, LAMBDA f : f.name # name)
    ELSE SubSeq(d, 2, Len(d))

DeleteFile(d, name) ==
    IF name \in Names(d)
    THEN SelectSeq(d, LAMBDA f : f.name # name)
    ELSE d

CleanValue(key, v) ==
    IF key \in {"image_input", "image", "mask"}
    THEN (IF v.kind = "list" THEN ImagesPlaceholder(v.len) ELSE ImagePlaceholder)
    ELSE IF v.kind \in {"text", "data"} /\ v.len > TruncLimit
         THEN [kind |-> v.kind, len |-> TruncLimit + 3, cut |-> TRUE]
         ELSE v

CleanInput(input) == [k \in DOMAIN input |-> CleanValue(k, input[k])]

WriteMetadataToFile(d, name, metadata, exifOk) ==
    IF name \notin Names(d) THEN d
    ELSE IF ~exifOk \/ name.ext \notin TagExts THEN d
    ELSE [d EXCEPT ![IndexOf(d, name)].tags =
            [json |-> << [model |-> metadata.model,
                          input |-> CleanInput(metadata.input),
                          predictionId |-> metadata.predictionId,
                          createdAt |-> metadata.createdAt,
                          type |-> metadata.type] >>,
             artist |-> metadata.model]]

\* fileStats[filename] || Date.now()
FileCreationTime(f, now) == IF f.birth = 0 THEN now ELSE f.birth

BasicMetadata(f, now) ==
    [model |-> "Unknown", input |-> EmptyInput, predictionId |-> 0,
     createdAt |-> FileCreationTime(f, now), type |-> ExtType(f.name.ext)]

\* Variant: the read time stands in for the file's creation time.
FieldMetadataReadTime(f, now) ==
    [model |-> IF f.tags.artist # "" THEN f.tags.artist ELSE "Unknown",
     input |-> [prompt |-> Val("text", 0)], predictionId |-> 0,
     createdAt |-> now, type |-> ExtType(f.name.ext)]

FieldMetadata(f, now) ==
    [model |-> IF f.tags.artist # "" THEN f.tags.artist ELSE "Unknown",
     input |-> [prompt |-> Val("text", 0)], predictionId |-> 0,
     createdAt |-> FileCreationTime(f, now), type |-> ExtType(f.name.ext)]

\* The record returned under one file name.
ReadOne(f, exifOk, now) ==
    IF ~exifOk THEN BasicMetadata(f, now)
    ELSE IF Len(f.tags.json) > 0
         THEN (IF f.tags.json[1].createdAt = 0
               THEN [f.tags.json[1] EXCEPT !.createdAt = FileCreationTime(f, now)]
               ELSE f.tags.json[1])
         ELSE FieldMetadata(f, now)

ReadMetadataFromFiles(d, names, exifOk, now) ==
    [n \in {names[i] : i \in 1..Len(names)} |-> ReadOne(FileAt(d, n), exifOk, now)]

----------------------------------------------------------------------------
(* storage.ts, file-system mode *)

Matches(name, date, prefix, ext) ==
    /\ name.date = date
    /\ name.prefix = prefix
    /\ Len(name.num) = NumWidth
    /\ name.ext = ext

GenerateUniqueFilename(files, date, prefix, ext) ==
    LET nums == {ParseInt(files[i].num) :
                    i \in {j \in 1..Len(files) : Matches(files[j], date, prefix, ext)}}
        maxNumber == Max(nums \cup {0})
    IN  FileName(date, prefix, maxNumber + 1, ext)

\* Extension chosen for one output (storage.ts:98-99 and storage.ts:112).
OutputExt(o) ==
    IF o.scheme = "http"
    THEN (IF o.ext # "" THEN o.ext ELSE IF o.video THEN "mp4" ELSE "png")
    ELSE (IF o.ext # "" THEN o.ext ELSE "png")

\* Variant: the first failed download ends the loop.
RECURSIVE SaveLoopStopOnFailure(_, _, _, _, _)
SaveLoopStopOnFailure(st, outputs, i, prefix, now) ==
    IF i > Len(outputs) THEN st
    ELSE LET o == outputs[i]
             skip == \/ o.scheme \notin {"http", "data"}
                     \/ (o.scheme = "http" /\ o.fetch # "ok")
             filename == GenerateUniqueFilename(ListFiles(st.disk), DateOf(now),
                                                prefix, OutputExt(o))
         IN  IF skip THEN st
             ELSE SaveLoopStopOnFailure(
                           [disk |-> SaveFile(st.disk, filename, now),
                            savedFiles |-> Append(st.savedFiles, filename),
                            writes |-> Append(st.writes,
                                [name |-> filename, index |-> i,
                                 listed |-> ListFiles(st.disk),
                                 existed |-> filename \in Names(st.disk)])],
                           outputs, i + 1, prefix, now)

\* The download-and-save loop of saveResultElectron (storage.ts:84-120).
\* st = [disk, savedFiles, writes]; writes records every fs.saveFile call:
\* the name, the output it carries, the listing the allocator read and
\* whether the name was already present in the directory.
RECURSIVE SaveLoop(_, _, _, _, _)
SaveLoop(st, outputs, i, prefix, now) ==
    IF i > Len(outputs) THEN st
    ELSE LET o == outputs[i]
             skip == \/ o.scheme \notin {"http", "data"}
                     \/ (o.scheme = "http" /\ o.fetch # "ok")
             filename == GenerateUniqueFilename(ListFiles(st.disk), DateOf(now),
                                                prefix, OutputExt(o))
         IN  IF skip THEN SaveLoop(st, outputs, i + 1, prefix, now)
             ELSE SaveLoop([disk |-> SaveFile(st.disk, filename, now),
                            savedFiles |-> Append(st.savedFiles, filename),
                            writes |-> Append(st.writes,
                                [name |-> filename, index |-> i,
                                 listed |-> ListFiles(st.disk),
                                 existed |-> filename \in Names(st.disk)])],
                           outputs, i + 1, prefix, now)

\* The metadata loop of saveResultElectron (storage.ts:122-141).
RECURSIVE MetadataLoop(_, _, _, _, _)
MetadataLoop(d, savedFiles, j, result, exifOk) ==
    IF j > Len(savedFiles) THEN d
    ELSE MetadataLoop(WriteMetadataToFile(d, savedFiles[j], result, exifOk),
                      savedFiles, j + 1, result, exifOk)

SaveResultElectron(d, result, prefix, now, exifOk) ==
    LET st == SaveLoop([disk |-> d, savedFiles |-> <<>>, writes |-> <<>>],
                       result.output, 1, prefix, now)
    IN  [disk |-> MetadataLoop(st.disk, st.savedFiles, 1, result, exifOk),
         savedFiles |-> st.savedFiles,
         writes |-> st.writes]

\* Variant: the listing is not narrowed to the media extensions.
GetFileListUnfiltered(d, filter) ==
    LET mediaFiles == ListFiles(d)
    IN  IF filter.type # ""
        THEN SelectSeq(mediaFiles, LAMBDA n : ExtType(n.ext) = filter.type)
        ELSE mediaFiles

\* getFileList (storage.ts:182-211), file-system mode
GetFileList(d, filter) ==
    LET allFiles == ListFiles(d)
        mediaFiles == SelectSeq(allFiles, IsMediaFile)
    IN  IF filter.type # ""
        THEN SelectSeq(mediaFiles, LAMBDA n : ExtType(n.ext) = filter.type)
        ELSE mediaFiles

\* results.sort((a, b) => b.createdAt - a.createdAt): stable, newest first.
RECURSIVE InsertDesc(_, _)
InsertDesc(sorted, r) ==
    IF Len(sorted) = 0 THEN <<r>>
    ELSE IF sorted[Len(sorted)].createdAt >= r.createdAt THEN Append(sorted, r)
    ELSE Append(InsertDesc(SubSeq(sorted, 1, Len(sorted) - 1), r), sorted[Len(sorted)])

RECURSIVE SortNewestFirst(_)
SortNewestFirst(rs) ==
    IF Len(rs) = 0 THEN <<>>
    ELSE InsertDesc(SortNewestFirst(SubSeq(rs, 1, Len(rs) - 1)), rs[Len(rs)])

ResultOf(filename, metadata, now) ==
    [id |-> filename,
     predictionId |-> metadata.predictionId,
     model |-> IF metadata.model = "" THEN "Unknown" ELSE metadata.model,
     input |-> metadata.input,
     createdAt |-> IF metadata.createdAt = 0 THEN now ELSE metadata.createdAt,
     type |-> IF metadata.type = "" THEN ExtType(filename.ext) ELSE metadata.type]

GetResultsForFiles(d, filenames, exifOk, now) ==
    IF Len(filenames) = 0 THEN <<>>
    ELSE LET allMetadata == ReadMetadataFromFiles(d, filenames, exifOk, now)
         IN  SortNewestFirst([i \in 1..Len(filenames) |->
                                ResultOf(filenames[i], allMetadata[filenames[i]], now)])

GetResultsElectron(d, filter, exifOk, now) ==
    LET results == GetResultsForFiles(d, GetFileList(d, filter), exifOk, now)
    IN  IF filter.model # ""
        THEN SelectSeq(results, LAMBDA r : r.model = filter.model)
        ELSE results

\* slice(n) of a sequence: everything after the first n elements.
Slice(s, n) == IF n >= Len(s) THEN <<>> ELSE SubSeq(s, n + 1, Len(s))

RECURSIVE DeleteAll(_, _, _)
DeleteAll(d, toDelete, j) ==
    IF j > Len(toDelete) THEN d
    ELSE DeleteAll(DeleteFile(d, toDelete[j].id), toDelete, j + 1)

\* Variant: the excess is taken from the front of the newest-first list.
CleanupElectronDropNewest(d, limit, exifOk, now) ==
    IF limit = 0 THEN d
    ELSE LET allResults == GetResultsElectron(d, NoFilter, exifOk, now)
         IN  IF Len(allResults) > limit
             THEN DeleteAll(d, SubSeq(allResults, 1, Len(allResults) - limit), 1)
             ELSE d

CleanupElectron(d, limit, exifOk, now) ==
    IF limit = 0 THEN d
    ELSE LET allResults == GetResultsElectron(d, NoFilter, exifOk, now)
         IN  IF Len(allResults) > limit
             THEN DeleteAll(d, Slice(allResults, limit), 1)
             ELSE d

GetResultElectron(d, id, exifOk, now) ==
    LET results == GetResultsElectron(d, NoFilter, exifOk, now)
    IN  SelectSeq(results, LAMBDA r : r.id = id)

----------------------------------------------------------------------------
(* storage.ts, document-store mode.  table is the set of records of the
   Dexie table `results`, keyed by id. *)

\* downloadAsBlob: the data: URL of the body, or the URL itself on failure.
DownloadAsBlob(o) ==
    IF o.fetch = "ok" THEN [o EXCEPT !.scheme = "data"] ELSE o

RECURSIVE SaveLoopWeb(_, _, _, _, _)
SaveLoopWeb(st, result, i, uuid, outputs) ==
    IF i > Len(outputs) THEN st
    ELSE LET id == UuidId(uuid)
             processedOutput == IF outputs[i].scheme = "http"
                                THEN DownloadAsBlob(outputs[i])
                                ELSE outputs[i]
             rec == [id |-> id,
                     predictionId |-> result.predictionId,
                     model |-> result.model,
                     input |-> result.input,
                     output |-> processedOutput,
                     createdAt |-> result.createdAt,
                     type |-> result.type]
         IN  SaveLoopWeb([table |-> st.table \cup {rec},
                          savedIds |-> Append(st.savedIds, id)],
                         result, i + 1, uuid + 1, outputs)

SaveResultWeb(table, result, uuid) ==
    SaveLoopWeb([table |-> table, savedIds |-> <<>>], result, 1, uuid, result.output)

\* db.results.orderBy('createdAt').reverse().toArray(): newest first, equal
\* createdAt in descending key order.
Newer(a, b) ==
    \/ a.createdAt > b.createdAt
    \/ (a.createdAt = b.createdAt /\ a.id.uuid > b.id.uuid)

RECURSIVE OrderByCreatedAtReverse(_)
OrderByCreatedAtReverse(table) ==
    IF table = {} THEN <<>>
    ELSE LET top == CHOOSE r \in table : \A q \in table \ {r} : Newer(r, q)
         IN  <<top>> \o OrderByCreatedAtReverse(table \ {top})

GetResultsWeb(table, filter) ==
    LET results == OrderByCreatedAtReverse(table)
    IN  SelectSeq(results, LAMBDA r :
            /\ (filter.type # "" => r.type = filter.type)
            /\ (filter.model # "" => r.model = filter.model))

DeleteWeb(table, id) == {r \in table : r.id # id}

CleanupWeb(table, cap) ==
    LET allResults == OrderByCreatedAtReverse(table)
    IN  IF Len(allResults) > cap
        THEN LET toDelete == Slice(allResults, cap)
                 idsToDelete == {toDelete[i].id : i \in 1..Len(toDelete)}
             IN  {r \in table : r.id \notin idsToDelete}
        ELSE table

GetResultWeb(table, id) ==
    LET hit == {r \in table : r.id = id}
    IN  IF hit = {} THEN <<>> ELSE <<CHOOSE r \in hit : TRUE>>

----------------------------------------------------------------------------
(* Inputs of the calls *)

Http(ext, fetch) == [scheme |-> "http", ext |-> ext, video |-> ext \in VideoExts, fetch |-> fetch]
Data(ext)        == [scheme |-> "data", ext |-> ext, video |-> FALSE, fetch |-> "ok"]

Failed(o) == o.scheme = "http" /\ o.fetch # "ok"

\* One output of a succeeded job, with the fate of its download.
OutputChoices ==
    {Data("png"), Http("mp4", "ok"), Http("mp4", "fail")}

OutputLists == UNION {[1..n -> OutputChoices] : n \in 1..MaxOutputs}

\* Outputs of one kind, of which at most one fails to download.
OutputsOf(scheme, n, failAt) ==
    [i \in 1..n |-> IF scheme = "data" THEN Data("png")
                    ELSE Http("mp4", IF i = failAt THEN "fail" ELSE "ok")]
UniformOutputLists ==
    {OutputsOf(sch, n, f) : sch \in {"data", "http"}, n \in 1..MaxOutputs, f \in 0..MaxOutputs}

\* The model and the form values of a run.
JobKinds == {[model |-> "acme/img", input |-> InputPlain],
             [model |-> "acme/vid", input |-> InputBinary]}

Prefixes == {"output", "cat"}

SettingChoices == 0..(MaxStored - 1)
CapChoices == SettingChoices \cup {RunnerKeep}

\* Largest number the three-digit pattern can carry.
NumLimit == 999

\* Directories the program can find at start-up: an empty one, one left by
\* earlier runs whose retention cap kept only the newest file of a busy day,
\* and one into which the user copied a picture tagged by other software.
HighWaterDir ==
    << [name |-> FileName(DateOf(1), "output", NumLimit, "png"), birth |-> 1, tags |-> NoTags] >>
ForeignDir ==
    << [name |-> [date |-> -1, prefix |-> "holiday", num |-> <<>>, ext |-> "jpg"],
        birth |-> 1, tags |-> [json |-> <<>>, artist |-> "Jane"]] >>
InitialDirs == {<<>>, HighWaterDir, ForeignDir}

StoredIds ==
    IF isElectron THEN Names(disk) ELSE {r.id : r \in db}

\* Ids a caller may hold: ids of stored results and ids returned earlier.
IdChoices == StoredIds \cup {UuidId(n) : n \in 1..(nextUuid - 1)}

Call(op, arg, ret) == [op |-> op, arg |-> arg, ret |-> ret]

\* settings.json before anything was saved, and the storage path once
\* getStoragePath has run without a saved path (main.cjs:106-109, 132-137).
NoSettings == [storagePath |-> <<>>, maxResults |-> <<>>]
DefaultStoragePath == << "Downloads/RepliTemp" >>

\* The callers whose calls can be in progress at the same time.
Procs == {"p1", "p2"}

NoLegacyCalls  == [p \in Procs |-> [pc |-> "idle", op |-> "", id |-> "", meta |-> <<>>]]
IdleSidecar    == [pc |-> "idle", op |-> "", result |-> <<>>, i |-> 0, filename |-> <<>>,
                   saved |-> <<>>, replaced |-> FALSE, listing |-> <<>>, returned |-> <<>>,
                   ghosts |-> {}]
NoSidecarCalls == [p \in Procs |-> IdleSidecar]
IdleRun        == [pc |-> "idle", attempt |-> 0, maxRetries |-> 0, controller |-> FALSE,
                   aborted |-> FALSE, shouldStop |-> FALSE, loading |-> FALSE,
                   isRetrying |-> FALSE, status |-> "none", error |-> "", created |-> 0,
                   stopBranch |-> FALSE, stoppedAt |-> "", rejected |-> FALSE,
                   succeeded |-> FALSE, cleaned |-> FALSE]

----------------------------------------------------------------------------
(* State machine *)

Init ==
    /\ isElectron \in BOOLEAN
    /\ exiftoolWorks \in (IF isElectron THEN BOOLEAN ELSE {TRUE})
    /\ db = {}
    /\ disk \in (IF isElectron THEN InitialDirs ELSE {<<>>})
    /\ maxResults = DefaultMaxResults
    /\ filenamePrefix = "output"
    /\ clock = 1
    /\ nextPred = 1
    /\ nextUuid = 1
    /\ last = Call("init", <<>>, <<>>)
    /\ index = <<>>
    /\ legacyCalls = NoLegacyCalls
    /\ sidecarCalls = NoSidecarCalls
    /\ run = IdleRun
    /\ settings = NoSettings
    /\ storagePath = DefaultStoragePath

\* saveResult (storage.ts:173-179) as called by handleRun
\* (PredictionRunner.tsx:350-357).
SaveResult(model, input, outputs) ==
    LET result == [predictionId |-> nextPred, model |-> model, input |-> input,
                   output |-> outputs, createdAt |-> clock, type |-> CategoryType(model)]
    IN  /\ clock < MaxClock
        /\ IF isElectron
           THEN /\ LET r == SaveResultElectron(disk, result, filenamePrefix, clock, exiftoolWorks)
                   IN  /\ Len(r.disk) <= MaxStored
                       /\ disk' = r.disk
                       /\ last' = Call("saveResult", result,
                                       [id |-> UuidId(nextUuid), saved |-> r.savedFiles,
                                        writes |-> r.writes, threw |-> FALSE])
                /\ nextUuid' = nextUuid + 1
                /\ db' = db
           ELSE /\ Cardinality(db) + Len(outputs) <= MaxStored
                /\ LET r == SaveResultWeb(db, result, nextUuid)
                   IN  /\ db' = r.table
                       /\ last' = Call("saveResult", result,
                                       [id |-> r.savedIds[1], saved |-> r.savedIds,
                                        writes |-> <<>>, threw |-> FALSE])
                /\ nextUuid' = nextUuid + Len(outputs)
                /\ disk' = disk
        /\ nextPred' = nextPred + 1
        /\ clock' = clock + 1
        /\ UNCHANGED <<settings, storagePath, isElectron, exiftoolWorks, maxResults, filenamePrefix>>
        /\ UNCHANGED stepVars

GetResultsOf(filter) ==
    IF isElectron THEN GetResultsElectron(disk, filter, exiftoolWorks, clock)
    ELSE GetResultsWeb(db, filter)

\* getResults (storage.ts:292-322)
GetResults(filter) ==
    /\ last' = Call("getResults", <<>>, <<>>)
    /\ UNCHANGED <<settings, storagePath, isElectron, exiftoolWorks, db, disk, maxResults, filenamePrefix,
                   clock, nextPred, nextUuid>>
    /\ UNCHANGED stepVars

GetResultOf(id) ==
    IF isElectron THEN GetResultElectron(disk, id, exiftoolWorks, clock)
    ELSE GetResultWeb(db, id)

\* The requests getResult sends to the main process: getResults() lists the
\* directory (storage.ts:188) and, unless the list is empty (storage.ts:229),
\* reads the metadata of every listed file in one batch (storage.ts:234).
GetResultRequests(id) ==
    IF isElectron
    THEN LET fileList == GetFileList(disk, NoFilter)
         IN  <<[ipc |-> "fs:listFiles", files |-> <<>>]>>
             \o (IF Len(fileList) = 0 THEN <<>>
                 ELSE <<[ipc |-> "fs:readMetadataFromFiles", files |-> fileList]>>)
    ELSE <<>>

\* getResult (storage.ts:335-342)
GetResult(id) ==
    /\ last' = Call("getResult", id, [requests |-> GetResultRequests(id)])
    /\ UNCHANGED <<settings, storagePath, isElectron, exiftoolWorks, db, disk, maxResults, filenamePrefix,
                   clock, nextPred, nextUuid>>
    /\ UNCHANGED stepVars

\* deleteResult (storage.ts:324-333)
DeleteResult(id) ==
    /\ IF isElectron
       THEN disk' = DeleteFile(disk, id) /\ db' = db
       ELSE db' = DeleteWeb(db, id) /\ disk' = disk
    /\ last' = Call("deleteResult", id, [repeated |-> last.op = "deleteResult" /\ last.arg = id])
    /\ UNCHANGED <<settings, storagePath, isElectron, exiftoolWorks, maxResults, filenamePrefix,
                   clock, nextPred, nextUuid>>
    /\ UNCHANGED stepVars

\* cleanupOldResults (storage.ts:364-396)
CleanupOldResults(cap) ==
    /\ IF isElectron
       THEN disk' = CleanupElectron(disk, maxResults, exiftoolWorks, clock) /\ db' = db
       ELSE db' = CleanupWeb(db, cap) /\ disk' = disk
    /\ last' = Call("cleanupOldResults", cap, [before |-> GetResultsOf(NoFilter)])
    /\ UNCHANGED <<settings, storagePath, isElectron, exiftoolWorks, maxResults, filenamePrefix,
                   clock, nextPred, nextUuid>>
    /\ UNCHANGED stepVars

\* fs:setMaxResults (main.cjs:391-399)
SetMaxResults(value) ==
    /\ isElectron
    /\ maxResults' = value
    /\ settings' = [settings EXCEPT !.maxResults = <<value>>]
    /\ last' = Call("setMaxResults", <<>>, <<>>)
    /\ UNCHANGED <<storagePath, isElectron, exiftoolWorks, db, disk, filenamePrefix,
                   clock, nextPred, nextUuid>>
    /\ UNCHANGED stepVars

\* handleFilenameChange (PredictionRunner.tsx:106-110); the prefix is read
\* by the file-system mode only.
SetFilenamePrefix(prefix) ==
    /\ isElectron
    /\ filenamePrefix' = prefix
    /\ last' = Call("setFilenamePrefix", <<>>, <<>>)
    /\ UNCHANGED <<settings, storagePath, isElectron, exiftoolWorks, db, disk, maxResults,
                   clock, nextPred, nextUuid>>
    /\ UNCHANGED stepVars

\* The user removes a file from the storage directory outside the program.
ExternalDelete(name) ==
    /\ isElectron
    /\ name \in Names(disk)
    /\ disk' = DeleteFile(disk, name)
    /\ last' = Call("externalDelete", <<>>, <<>>)
    /\ UNCHANGED <<settings, storagePath, isElectron, exiftoolWorks, db, maxResults, filenamePrefix,
                   clock, nextPred, nextUuid>>
    /\ UNCHANGED stepVars

\* Time passes.
Tick ==
    /\ clock < MaxClock
    /\ clock' = clock + 1
    /\ last' = Call("tick", <<>>, <<>>)
    /\ UNCHANGED <<settings, storagePath, isElectron, exiftoolWorks, db, disk, maxResults, filenamePrefix,
                   nextPred, nextUuid>>
    /\ UNCHANGED stepVars

Next ==
    \/ \E j \in JobKinds, outs \in OutputLists : SaveResult(j.model, j.input, outs)
    \/ \E f \in Filters : GetResults(f)
    \/ \E id \in IdChoices : GetResult(id)
    \/ \E id \in IdChoices : DeleteResult(id)
    \/ \E cap \in CapChoices : CleanupOldResults(cap)
    \/ \E v \in SettingChoices : SetMaxResults(v)
    \/ \E p \in Prefixes : SetFilenamePrefix(p)
    \/ \E n \in Names(disk) : ExternalDelete(n)
    \/ Tick

Spec == Init /\ [][Next]_vars

\* The store under the calls that write to it, with the prefix left as it
\* is and runs of one model whose outputs are all of one kind.
NextStore ==
    \/ \E outs \in UniformOutputLists : SaveResult("acme/img", InputPlain, outs)
    \/ \E f \in Filters : GetResults(f)
    \/ \E id \in IdChoices : DeleteResult(id)
    \/ \E cap \in CapChoices : CleanupOldResults(cap)
    \/ \E v \in SettingChoices : SetMaxResults(v)

SpecStore == Init /\ [][NextStore]_vars

----------------------------------------------------------------------------
(* The settings of the main process (main.cjs:101-168) over process runs. *)

\* getStoragePath (main.cjs:132-145): the settings are read when no storage
\* path is held yet.
GetStoragePath ==
    IF storagePath = <<>>
    THEN /\ storagePath' = IF settings.storagePath # <<>> THEN settings.storagePath
                           ELSE DefaultStoragePath
         /\ maxResults' = IF settings.maxResults # <<>> THEN settings.maxResults[1]
                          ELSE DefaultMaxResults
    ELSE UNCHANGED <<storagePath, maxResults>>

SettingsFrame == <<isElectron, exiftoolWorks, db, disk, filenamePrefix, clock, nextPred,
                   nextUuid, index, legacyCalls, sidecarCalls, run>>

\* fs:getStoragePath (main.cjs:356-358); every handler that works on the
\* directory calls getStoragePath in the same way.
FsGetStoragePath ==
    /\ GetStoragePath
    /\ last' = Call("getStoragePath", <<>>, storagePath')
    /\ UNCHANGED settings
    /\ UNCHANGED SettingsFrame

\* fs:setStoragePath (main.cjs:147-155, 360-368)
FsSetStoragePath(newPath) ==
    /\ storagePath' = <<newPath>>
    /\ settings' = [settings EXCEPT !.storagePath = <<newPath>>]
    /\ last' = Call("setStoragePath", newPath, <<>>)
    /\ UNCHANGED maxResults
    /\ UNCHANGED SettingsFrame

\* fs:getMaxResults (main.cjs:157-163, 387-389): maxResults is never
\* undefined (main.cjs:103), so the settings are not read here.
FsGetMaxResults ==
    /\ last' = Call("getMaxResults", <<>>, maxResults)
    /\ UNCHANGED <<settings, storagePath, maxResults>>
    /\ UNCHANGED SettingsFrame

\* The application is closed and started again (main.cjs:102-103).
Restart ==
    /\ storagePath' = <<>>
    /\ maxResults' = DefaultMaxResults
    /\ last' = Call("restart", <<>>, <<>>)
    /\ UNCHANGED settings
    /\ UNCHANGED SettingsFrame

InitSettings ==
    /\ isElectron = TRUE
    /\ exiftoolWorks = TRUE
    /\ db = {}
    /\ disk = <<>>
    /\ maxResults = DefaultMaxResults
    /\ filenamePrefix = "output"
    /\ clock = 1
    /\ nextPred = 1
    /\ nextUuid = 1
    /\ last = Call("init", <<>>, <<>>)
    /\ index = <<>>
    /\ legacyCalls = NoLegacyCalls
    /\ sidecarCalls = NoSidecarCalls
    /\ run = IdleRun
    /\ settings = NoSettings
    /\ storagePath = <<>>

NextSettings ==
    \/ \E v \in CapChoices : SetMaxResults(v)
    \/ FsGetMaxResults
    \/ FsGetStoragePath
    \/ \E newPath \in {"Pictures", "Desktop", "Documents"} : FsSetStoragePath(newPath)
    \/ Restart

SpecSettings == InitSettings /\ [][NextSettings]_vars

----------------------------------------------------------------------------
(* The store on a directory that also holds a file of no media extension. *)

MixedDir ==
    << [name |-> [date |-> -1, prefix |-> "notes", num |-> <<>>, ext |-> "txt"],
        birth |-> 1, tags |-> NoTags] >>

InitList ==
    /\ isElectron = TRUE
    /\ exiftoolWorks \in BOOLEAN
    /\ db = {}
    /\ disk = MixedDir
    /\ maxResults = DefaultMaxResults
    /\ filenamePrefix = "output"
    /\ clock = 1
    /\ nextPred = 1
    /\ nextUuid = 1
    /\ last = Call("init", <<>>, <<>>)
    /\ index = <<>>
    /\ legacyCalls = NoLegacyCalls
    /\ sidecarCalls = NoSidecarCalls
    /\ run = IdleRun
    /\ settings = NoSettings
    /\ storagePath = DefaultStoragePath

NextList ==
    \/ \E n \in 1..MaxOutputs, f \in 0..1 : SaveResult("acme/img", InputPlain, OutputsOf("http", n, f))
    \/ GetResults(NoFilter)
    \/ \E id \in IdChoices : DeleteResult(id)
    \/ \E name \in Names(disk) : ExternalDelete(name)
    \/ Tick

SpecList == InitList /\ [][NextList]_vars

----------------------------------------------------------------------------
(* The consolidated-index scheme (src/unnamed/part_005): one record per job
   in metadata.json, its files named {id}_{i}.{ext}.  Each action below is
   the code between two awaits of one call; calls of different callers
   interleave at the awaits. *)

\* crypto.randomUUID() as a string.
LegacyIds == <<"job-1", "job-2", "job-3", "job-4">>

LegacyFileName(id, i, ext) ==
    [date |-> -1, prefix |-> id, num |-> ToDigits(i - 1), ext |-> ext]

\* part_005:48-79: every output that can be fetched is written to its file.
RECURSIVE LegacySaveFiles(_, _, _, _, _)
LegacySaveFiles(st, outputs, i, id, now) ==
    IF i > Len(outputs) THEN st
    ELSE LET o == outputs[i]
             filename == LegacyFileName(id, i, OutputExt(o))
         IN  IF o.scheme = "http" /\ o.fetch # "ok"
             THEN LegacySaveFiles(st, outputs, i + 1, id, now)
             ELSE LegacySaveFiles([disk |-> SaveFile(st.disk, filename, now),
                                   savedFiles |-> Append(st.savedFiles, filename)],
                                  outputs, i + 1, id, now)

\* part_005:95-96: maxResultsResult.value || 200
LegacyLimit(setting) == IF setting = 0 THEN DefaultMaxResults ELSE setting

Take(q, n) == IF n >= Len(q) THEN q ELSE SubSeq(q, 1, n)

FilesOf(records) == UNION {SeqToSet(records[i].output) : i \in 1..Len(records)}

RECURSIVE DeleteFiles(_, _)
DeleteFiles(d, names) ==
    IF names = {} THEN d
    ELSE LET n == CHOOSE x \in names : TRUE
         IN  DeleteFiles(DeleteFile(d, n), names \ {n})

\* part_005:92-110: unshift the new record, cut the list at the limit.
LegacyInsert(metadata, rec, setting) == Take(<<rec>> \o metadata, LegacyLimit(setting))
LegacyEvicted(metadata, rec, setting) == Slice(<<rec>> \o metadata, LegacyLimit(setting))

\* part_005:217-230: splice out the record with this id.
LegacyRemove(metadata, id) == SelectSeq(metadata, LAMBDA r : r.id # id)

\* part_005:40-79: saveResultElectron up to its first read of the index.
LegacyCreate(p, model, input, outputs) ==
    LET id == LegacyIds[nextUuid]
        st == LegacySaveFiles([disk |-> disk, savedFiles |-> <<>>], outputs, 1, id, clock)
        rec == [id |-> id, predictionId |-> nextPred, model |-> model, input |-> input,
                output |-> st.savedFiles, createdAt |-> clock, type |-> CategoryType(model)]
    IN  /\ isElectron
        /\ legacyCalls[p].pc \in {"idle", "done"}
        /\ clock < MaxClock
        /\ nextUuid <= Len(LegacyIds)
        /\ disk' = st.disk
        /\ legacyCalls' = [legacyCalls EXCEPT ![p] =
                              [pc |-> "saved", op |-> "create", id |-> id, meta |-> <<rec>>]]
        /\ nextUuid' = nextUuid + 1
        /\ nextPred' = nextPred + 1
        /\ clock' = clock + 1
        /\ UNCHANGED <<settings, storagePath, isElectron, exiftoolWorks, db, maxResults, filenamePrefix, last,
                       index, sidecarCalls, run>>

\* part_005:81-92: readMetadata, then unshift on the copy that was read.
LegacyCreateRead(p) ==
    /\ legacyCalls[p].pc = "saved"
    /\ legacyCalls' = [legacyCalls EXCEPT ![p].pc = "read",
                                          ![p].meta = legacyCalls[p].meta \o index]
    /\ UNCHANGED <<settings, storagePath, isElectron, exiftoolWorks, db, disk, maxResults, filenamePrefix,
                   clock, nextPred, nextUuid, last, index, sidecarCalls, run>>

\* part_005:94-110: getMaxResults, delete the files of the records beyond
\* the limit, keep the first `limit` records.
LegacyCreateTrim(p) ==
    LET read == Tail(legacyCalls[p].meta)
        rec  == Head(legacyCalls[p].meta)
    IN  /\ legacyCalls[p].pc = "read"
        /\ disk' = DeleteFiles(disk, FilesOf(LegacyEvicted(read, rec, maxResults)))
        /\ legacyCalls' = [legacyCalls EXCEPT ![p].pc = "trimmed",
                                              ![p].meta = LegacyInsert(read, rec, maxResults)]
        /\ UNCHANGED <<settings, storagePath, isElectron, exiftoolWorks, db, maxResults, filenamePrefix,
                       clock, nextPred, nextUuid, last, index, sidecarCalls, run>>

\* part_005:112-115: writeMetadata(metadata)
LegacyCreateWrite(p) ==
    /\ legacyCalls[p].pc = "trimmed"
    /\ index' = legacyCalls[p].meta
    /\ legacyCalls' = [legacyCalls EXCEPT ![p].pc = "done"]
    /\ UNCHANGED <<settings, storagePath, isElectron, exiftoolWorks, db, disk, maxResults, filenamePrefix,
                   clock, nextPred, nextUuid, last, sidecarCalls, run>>

IndexIds(metadata) == {metadata[i].id : i \in 1..Len(metadata)}

\* part_005:211-218: deleteResult reads the index and looks the id up.
LegacyDeleteRead(p, id) ==
    /\ isElectron
    /\ legacyCalls[p].pc \in {"idle", "done"}
    /\ legacyCalls' = [legacyCalls EXCEPT ![p] =
                          [pc |-> IF id \in IndexIds(index) THEN "found" ELSE "done",
                           op |-> "delete", id |-> id, meta |-> index]]
    /\ UNCHANGED <<settings, storagePath, isElectron, exiftoolWorks, db, disk, maxResults, filenamePrefix,
                   clock, nextPred, nextUuid, last, index, sidecarCalls, run>>

\* part_005:219-227: delete the files of the record.
LegacyDeleteFiles(p) ==
    LET c == legacyCalls[p]
    IN  /\ c.pc = "found"
        /\ disk' = DeleteFiles(disk, FilesOf(SelectSeq(c.meta, LAMBDA r : r.id = c.id)))
        /\ legacyCalls' = [legacyCalls EXCEPT ![p].pc = "unlinked"]
        /\ UNCHANGED <<settings, storagePath, isElectron, exiftoolWorks, db, maxResults, filenamePrefix,
                       clock, nextPred, nextUuid, last, index, sidecarCalls, run>>

\* part_005:229-231: splice the record out of the copy that was read and
\* write that copy.
LegacyDeleteWrite(p) ==
    LET c == legacyCalls[p]
    IN  /\ c.pc = "unlinked"
        /\ index' = LegacyRemove(c.meta, c.id)
        /\ legacyCalls' = [legacyCalls EXCEPT ![p].pc = "done"]
        /\ UNCHANGED <<settings, storagePath, isElectron, exiftoolWorks, db, disk, maxResults, filenamePrefix,
                       clock, nextPred, nextUuid, last, sidecarCalls, run>>

\* part_005:165-184: a file that cannot be read leaves its name in place of
\* its content.
LegacyLoad(d, r) ==
    [r EXCEPT !.output = [i \in 1..Len(r.output) |->
                             [file |-> r.output[i], loaded |-> r.output[i] \in Names(d)]]]

\* part_005:156-194: getResults of the consolidated-index scheme.
LegacyGetResults(metadata, d, filter) ==
    LET results == [i \in 1..Len(metadata) |-> LegacyLoad(d, metadata[i])]
    IN  SelectSeq(results, LAMBDA r :
            /\ (filter.type # "" => r.type = filter.type)
            /\ (filter.model # "" => r.model = filter.model))

\* Ids a caller of the consolidated-index scheme may hold: those in the
\* index and one that was never stored.
LegacyIdChoices == IndexIds(index) \cup {"job-0"}

InitLegacy ==
    /\ isElectron = TRUE
    /\ exiftoolWorks = TRUE
    /\ db = {}
    /\ disk = <<>>
    /\ maxResults = DefaultMaxResults
    /\ filenamePrefix = "output"
    /\ clock = 1
    /\ nextPred = 1
    /\ nextUuid = 1
    /\ last = Call("init", <<>>, <<>>)
    /\ index = <<>>
    /\ legacyCalls = NoLegacyCalls
    /\ sidecarCalls = NoSidecarCalls
    /\ run = IdleRun
    /\ settings = NoSettings
    /\ storagePath = DefaultStoragePath

NextLegacy ==
    \/ \E p \in Procs, n \in 1..MaxOutputs :
           LegacyCreate(p, "acme/img", InputPlain, OutputsOf("http", n, 0))
    \/ \E p \in Procs : LegacyCreateRead(p)
    \/ \E p \in Procs : LegacyCreateTrim(p)
    \/ \E p \in Procs : LegacyCreateWrite(p)
    \/ \E p \in Procs, id \in LegacyIdChoices : LegacyDeleteRead(p, id)
    \/ \E p \in Procs : LegacyDeleteFiles(p)
    \/ \E p \in Procs : LegacyDeleteWrite(p)

SpecLegacy == InitLegacy /\ [][NextLegacy]_vars

----------------------------------------------------------------------------
(* The consolidated-index create on an index that already holds the default
   number of records, with the maxResults setting at 0. *)

StoredRecord(i) ==
    LET id == "stored-" \o ToString(i)
    IN  [id |-> id, predictionId |-> 0, model |-> "acme/img", input |-> InputPlain,
         output |-> << LegacyFileName(id, 1, "png") >>, createdAt |-> 0,
         type |-> CategoryType("acme/img")]

FullIndex == [i \in 1..DefaultMaxResults |-> StoredRecord(i)]
FullDisk  == [i \in 1..DefaultMaxResults |->
                 [name |-> StoredRecord(i).output[1], birth |-> 0, tags |-> NoTags]]

InitLegacyFull ==
    /\ isElectron = TRUE
    /\ exiftoolWorks = TRUE
    /\ db = {}
    /\ disk = FullDisk
    /\ maxResults = 0
    /\ filenamePrefix = "output"
    /\ clock = 1
    /\ nextPred = 1
    /\ nextUuid = 1
    /\ last = Call("init", <<>>, <<>>)
    /\ index = FullIndex
    /\ legacyCalls = NoLegacyCalls
    /\ sidecarCalls = NoSidecarCalls
    /\ run = IdleRun
    /\ settings = NoSettings
    /\ storagePath = DefaultStoragePath

NextLegacyFull ==
    \/ \E p \in Procs, n \in 1..MaxOutputs :
           LegacyCreate(p, "acme/img", InputPlain, OutputsOf("http", n, 0))
    \/ \E p \in Procs : LegacyCreateRead(p)
    \/ \E p \in Procs : LegacyCreateTrim(p)
    \/ \E p \in Procs : LegacyCreateWrite(p)

SpecLegacyFull == InitLegacyFull /\ [][NextLegacyFull]_vars

----------------------------------------------------------------------------
(* The sidecar scheme by await point (src/src/lib/storage.ts).  Each action
   is the code of one call between two awaits. *)

\* storage.ts:73-83: saveResultElectron is entered with the result built by
\* the caller.
SidecarBegin(p, model, input, outputs) ==
    LET result == [predictionId |-> nextPred, model |-> model, input |-> input,
                   output |-> outputs, createdAt |-> clock, type |-> CategoryType(model)]
    IN  /\ isElectron
        /\ sidecarCalls[p].pc \in {"idle", "done"}
        /\ clock < MaxClock
        /\ sidecarCalls' = [sidecarCalls EXCEPT ![p] =
                               [IdleSidecar EXCEPT !.pc = "list", !.op = "saveResult",
                                                   !.result = result, !.i = 1]]
        /\ nextPred' = nextPred + 1
        /\ nextUuid' = nextUuid + 1
        /\ clock' = clock + 1
        /\ UNCHANGED <<settings, storagePath, isElectron, exiftoolWorks, db, disk, maxResults, filenamePrefix, last,
                       index, legacyCalls, run>>

\* storage.ts:84-102 / 110-115: the download of output i and the directory
\* listing of generateUniqueFilename, which yields the name to write.
SidecarList(p) ==
    LET c == sidecarCalls[p]
        outputs == c.result.output
    IN  /\ c.pc = "list"
        /\ IF c.i > Len(outputs)
           THEN sidecarCalls' = [sidecarCalls EXCEPT ![p].pc = "meta", ![p].i = 1]
           ELSE IF Failed(outputs[c.i])
           THEN sidecarCalls' = [sidecarCalls EXCEPT ![p].i = c.i + 1]
           ELSE sidecarCalls' = [sidecarCalls EXCEPT
                    ![p].pc = "write",
                    ![p].filename = << GenerateUniqueFilename(ListFiles(disk), DateOf(clock),
                                          filenamePrefix, OutputExt(outputs[c.i])) >>]
        /\ UNCHANGED <<settings, storagePath, isElectron, exiftoolWorks, db, disk, maxResults, filenamePrefix,
                       clock, nextPred, nextUuid, last, index, legacyCalls, run>>

\* storage.ts:105-106 / 117-118: fs.saveFile(filename) and savedFiles.push.
SidecarWrite(p) ==
    LET c == sidecarCalls[p]
        filename == c.filename[1]
    IN  /\ c.pc = "write"
        /\ disk' = SaveFile(disk, filename, clock)
        /\ sidecarCalls' = [sidecarCalls EXCEPT
               ![p].pc = "list", ![p].i = c.i + 1, ![p].filename = <<>>,
               ![p].saved = Append(c.saved, filename),
               ![p].replaced = c.replaced \/ filename \in Names(disk)]
        /\ UNCHANGED <<settings, storagePath, isElectron, exiftoolWorks, db, maxResults, filenamePrefix,
                       clock, nextPred, nextUuid, last, index, legacyCalls, run>>

\* storage.ts:122-143: one round of the metadata loop, or the return.
SidecarMeta(p) ==
    LET c == sidecarCalls[p]
    IN  /\ c.pc = "meta"
        /\ IF c.i > Len(c.saved)
           THEN /\ sidecarCalls' = [sidecarCalls EXCEPT ![p].pc = "done"]
                /\ disk' = disk
           ELSE /\ sidecarCalls' = [sidecarCalls EXCEPT ![p].i = c.i + 1]
                /\ disk' = WriteMetadataToFile(disk, c.saved[c.i], c.result, exiftoolWorks)
        /\ UNCHANGED <<settings, storagePath, isElectron, exiftoolWorks, db, maxResults, filenamePrefix,
                       clock, nextPred, nextUuid, last, index, legacyCalls, run>>

\* main.cjs:551-559: the birthtime is taken only of the files that exist.
StatOf(d, name) ==
    IF name \in Names(d) THEN FileAt(d, name)
    ELSE [name |-> name, birth |-> 0, tags |-> NoTags]

\* main.cjs:539-645 on names that need not all be in the directory any
\* more: exiftool ends with an error status when a file is missing, and the
\* handler answers with the basic record for every name.
ReadMetadataBatch(d, names, exifOk, now) ==
    LET execOk == exifOk /\ SeqToSet(names) \subseteq Names(d)
    IN  [n \in SeqToSet(names) |-> ReadOne(StatOf(d, n), execOk, now)]

\* storage.ts:225-275 on a listing taken earlier.
GetResultsForListing(d, filenames, exifOk, now) ==
    IF Len(filenames) = 0 THEN <<>>
    ELSE LET allMetadata == ReadMetadataBatch(d, filenames, exifOk, now)
         IN  SortNewestFirst([i \in 1..Len(filenames) |->
                                ResultOf(filenames[i], allMetadata[filenames[i]], now)])

\* storage.ts:295-297: getResults awaits getFileList.
SidecarGetList(p, filter) ==
    /\ isElectron
    /\ sidecarCalls[p].pc \in {"idle", "done"}
    /\ sidecarCalls' = [sidecarCalls EXCEPT ![p] =
                           [IdleSidecar EXCEPT !.pc = "listed", !.op = "getResults",
                                               !.listing = GetFileList(disk, filter)]]
    /\ UNCHANGED <<settings, storagePath, isElectron, exiftoolWorks, db, disk, maxResults, filenamePrefix,
                   clock, nextPred, nextUuid, last, index, legacyCalls, run>>

\* storage.ts:299-307: getResults awaits getResultsForFiles and returns;
\* ghosts are the returned ids that name no file of the directory at return.
SidecarGetRead(p) ==
    LET c == sidecarCalls[p]
        results == GetResultsForListing(disk, c.listing, exiftoolWorks, clock)
    IN  /\ c.pc = "listed"
        /\ sidecarCalls' = [sidecarCalls EXCEPT
               ![p].pc = "done",
               ![p].returned = results,
               ![p].ghosts = {results[k].id : k \in 1..Len(results)} \ Names(disk)]
        /\ UNCHANGED <<settings, storagePath, isElectron, exiftoolWorks, db, disk, maxResults, filenamePrefix,
                       clock, nextPred, nextUuid, last, index, legacyCalls, run>>

InitSteps ==
    /\ isElectron = TRUE
    /\ exiftoolWorks = TRUE
    /\ db = {}
    /\ disk = <<>>
    /\ maxResults = DefaultMaxResults
    /\ filenamePrefix = "output"
    /\ clock = 1
    /\ nextPred = 1
    /\ nextUuid = 1
    /\ last = Call("init", <<>>, <<>>)
    /\ index = <<>>
    /\ legacyCalls = NoLegacyCalls
    /\ sidecarCalls = NoSidecarCalls
    /\ run = IdleRun
    /\ settings = NoSettings
    /\ storagePath = DefaultStoragePath

NextSteps ==
    \/ \E p \in Procs, n \in 1..MaxOutputs :
           SidecarBegin(p, "acme/img", InputPlain, OutputsOf("data", n, 0))
    \/ \E p \in Procs : SidecarList(p)
    \/ \E p \in Procs : SidecarWrite(p)
    \/ \E p \in Procs : SidecarMeta(p)
    \/ \E p \in Procs : SidecarGetList(p, NoFilter)
    \/ \E p \in Procs : SidecarGetRead(p)
    \/ \E n \in Names(disk) : ExternalDelete(n)

SpecSteps == InitSteps /\ [][NextSteps]_vars

----------------------------------------------------------------------------
(* The input cleaning of fs:writeMetadataToFile (main.cjs:475-487) on its
   own, over input maps with well-known and other field names. *)

CodecKeys   == {"prompt", "image", "mask", "image_input", "start_image"}
CodecValues == {Val("text", 12), Val("text", 401), Val("data", 300), Val("data", 900),
                Val("list", 2)}
CodecInputs == [CodecKeys -> CodecValues]

InitCodec ==
    /\ isElectron = TRUE
    /\ exiftoolWorks = TRUE
    /\ db = {}
    /\ disk = <<>>
    /\ maxResults = DefaultMaxResults
    /\ filenamePrefix = "output"
    /\ clock = 1
    /\ nextPred = 1
    /\ nextUuid = 1
    /\ last \in {Call("input", input, <<>>) : input \in CodecInputs}
    /\ index = <<>>
    /\ legacyCalls = NoLegacyCalls
    /\ sidecarCalls = NoSidecarCalls
    /\ run = IdleRun
    /\ settings = NoSettings
    /\ storagePath = DefaultStoragePath

\* main.cjs:475-487: cleanInput is built from metadata.input.
EmbedInput ==
    /\ last.op = "input"
    /\ last' = Call("writeMetadataToFile", last.arg, CleanInput(last.arg))
    /\ UNCHANGED <<settings, storagePath, isElectron, exiftoolWorks, db, disk, maxResults, filenamePrefix,
                   clock, nextPred, nextUuid, index, legacyCalls, sidecarCalls, run>>

NextCodec == EmbedInput

SpecCodec == InitCodec /\ [][NextCodec]_vars

----------------------------------------------------------------------------
(* handleRun (src/src/components/PredictionRunner.tsx:246-471) by await
   point, with the Stop dialog's two handlers.  run.status and run.error are
   the prediction shown in the Output panel. *)

RunnerProc == "p1"

\* Variant: a cleanup block that leaves the retry indicator on.
FinishRetrying(r) ==
    [r EXCEPT !.pc = "ended", !.loading = FALSE, !.controller = FALSE]

\* The cleanup blocks of handleRun (e.g. PredictionRunner.tsx:404-409).
Finish(r) ==
    [r EXCEPT !.pc = "ended", !.loading = FALSE, !.controller = FALSE, !.isRetrying = FALSE]

\* Variant: the catch block retries once more than the setting allows.
CaughtOneMore(r, msg) ==
    LET shown == [r EXCEPT !.status = "failed", !.error = msg]
    IN  IF msg # "Aborted by user" /\ r.attempt <= r.maxRetries
        THEN [shown EXCEPT !.pc = "retrywait", !.isRetrying = TRUE]
        ELSE Finish(shown)

\* The catch block (PredictionRunner.tsx:410-470) up to its first await.
Caught(r, msg) ==
    LET shown == [r EXCEPT !.status = "failed", !.error = msg]
    IN  IF msg # "Aborted by user" /\ r.attempt < r.maxRetries
        THEN [shown EXCEPT !.pc = "retrywait", !.isRetrying = TRUE]
        ELSE Finish(shown)

\* Variant: an attempt starts without looking at the abort signal.
EnterUnchecked(r, currentAttempt) ==
    LET fresh == IF currentAttempt = 0
                 THEN [r EXCEPT !.shouldStop = FALSE, !.controller = TRUE, !.aborted = FALSE]
                 ELSE r
        begun == [fresh EXCEPT !.attempt = currentAttempt, !.loading = TRUE,
                               !.isRetrying = FALSE, !.status = "none", !.error = ""]
    IN  [begun EXCEPT !.pc = "creating", !.created = begun.created + 1]

\* handleRun(currentAttempt) up to its first await (PredictionRunner.tsx:246-300).
Enter(r, currentAttempt) ==
    LET fresh == IF currentAttempt = 0
                 THEN [r EXCEPT !.shouldStop = FALSE, !.controller = TRUE, !.aborted = FALSE]
                 ELSE r
        begun == [fresh EXCEPT !.attempt = currentAttempt, !.loading = TRUE,
                               !.isRetrying = FALSE, !.status = "none", !.error = ""]
    IN  IF begun.aborted THEN Caught(begun, "Aborted by user")
        ELSE [begun EXCEPT !.pc = "creating", !.created = begun.created + 1]

\* The head of the polling loop (PredictionRunner.tsx:303-310).
LoopHead(r) ==
    IF r.aborted THEN Caught(r, "Aborted by user") ELSE [r EXCEPT !.pc = "pollwait"]

RunFrame == <<settings, storagePath, isElectron, exiftoolWorks, db, disk, maxResults, filenamePrefix,
              clock, nextPred, nextUuid, last, index, legacyCalls, sidecarCalls>>

\* The user presses Run.
RunStart ==
    /\ run.pc = "idle"
    /\ run' = Enter(run, 0)
    /\ UNCHANGED RunFrame

\* client.createPrediction resolves (PredictionRunner.tsx:299-300).
RunCreated ==
    /\ run.pc = "creating"
    /\ run' = LoopHead([run EXCEPT !.status = "starting"])
    /\ nextPred' = nextPred + 1
    /\ UNCHANGED <<settings, storagePath, isElectron, exiftoolWorks, db, disk, maxResults, filenamePrefix,
                   clock, nextUuid, last, index, legacyCalls, sidecarCalls>>

\* client.createPrediction rejects.
RunCreateFailed ==
    /\ run.pc = "creating"
    /\ run' = Caught(run, "Failed")
    /\ UNCHANGED RunFrame

\* The one-second wait of the polling loop ends (PredictionRunner.tsx:312-316).
RunPollTick ==
    /\ run.pc = "pollwait"
    /\ run' = IF run.aborted THEN Caught(run, "Aborted by user")
              ELSE [run EXCEPT !.pc = "pollget"]
    /\ UNCHANGED RunFrame

\* client.getPrediction rejects.
RunPollError ==
    /\ run.pc = "pollget"
    /\ run' = Caught(run, "Failed")
    /\ UNCHANGED RunFrame

\* The job is still running (PredictionRunner.tsx:318-320).
RunPollPending ==
    /\ run.pc = "pollget"
    /\ run' = LoopHead([run EXCEPT !.status = "processing"])
    /\ UNCHANGED RunFrame

\* The job ended without output (PredictionRunner.tsx:323-345, 361-391).
RunPollFailed(status) ==
    /\ run.pc = "pollget"
    /\ run' = LET r == [run EXCEPT !.status = status]
              IN  IF r.shouldStop THEN Finish([r EXCEPT !.shouldStop = FALSE])
                  ELSE IF r.attempt < r.maxRetries
                       THEN [r EXCEPT !.pc = "retrywait", !.isRetrying = TRUE]
                       ELSE Finish(r)
    /\ UNCHANGED RunFrame

\* The job succeeded with output: saveResult is called
\* (PredictionRunner.tsx:324-333, 349-357).
RunPollSucceeded(outputs) ==
    LET result == [predictionId |-> nextPred - 1, model |-> "acme/img", input |-> InputPlain,
                   output |-> outputs, createdAt |-> clock, type |-> CategoryType("acme/img")]
    IN  /\ run.pc = "pollget"
        /\ run' = [run EXCEPT !.status = "succeeded", !.pc = "saving",
                              !.stopBranch = run.shouldStop, !.succeeded = TRUE]
        /\ sidecarCalls' = [sidecarCalls EXCEPT ![RunnerProc] =
                               [IdleSidecar EXCEPT !.pc = IF isElectron THEN "list" ELSE "web",
                                                   !.op = "saveResult",
                                                   !.result = result, !.i = 1]]
        /\ UNCHANGED <<settings, storagePath, isElectron, exiftoolWorks, db, disk, maxResults, filenamePrefix,
                       clock, nextPred, nextUuid, last, index, legacyCalls>>

\* saveResultWeb with a table that rejects the add of output rejectAt
\* (0: none): the outputs before it are stored, then the call rejects
\* (storage.ts:152-167).
SaveResultWebUntil(table, result, uuid, rejectAt) ==
    IF rejectAt = 0 THEN SaveResultWeb(table, result, uuid)
    ELSE SaveLoopWeb([table |-> table, savedIds |-> <<>>], result, 1, uuid,
                     SubSeq(result.output, 1, rejectAt - 1))

\* await saveResult(...) in document-store mode settles.
RunSaveWeb(rejectAt) ==
    LET c == sidecarCalls[RunnerProc]
        r == SaveResultWebUntil(db, c.result, nextUuid, rejectAt)
    IN  /\ run.pc = "saving"
        /\ c.pc = "web"
        /\ rejectAt <= Len(c.result.output)
        /\ db' = r.table
        /\ nextUuid' = nextUuid + Len(r.savedIds)
        /\ sidecarCalls' = [sidecarCalls EXCEPT ![RunnerProc].pc = "done",
                                                ![RunnerProc].i = rejectAt,
                                                ![RunnerProc].saved = r.savedIds]
        /\ run' = IF rejectAt = 0 THEN [run EXCEPT !.pc = "cleaning"]
                  ELSE Caught([run EXCEPT !.rejected = TRUE], "QuotaExceededError")
        /\ UNCHANGED <<settings, storagePath, isElectron, exiftoolWorks, disk, maxResults, filenamePrefix,
                       clock, nextPred, last, index, legacyCalls>>

\* Variant: a confirmed Stop lets handleRun go on before the call has returned.
SaveSettledOrStopped(c) == c.pc = "done" \/ run.aborted

\* await saveResult(...): handleRun goes on when the call has returned.
SaveSettled(c) == c.pc = "done"

RunSaveDone ==
    /\ run.pc = "saving"
    /\ isElectron
    /\ SaveSettled(sidecarCalls[RunnerProc])
    /\ run' = [run EXCEPT !.pc = "cleaning"]
    /\ UNCHANGED RunFrame

\* await cleanupOldResults(100) and the end of the attempt
\* (PredictionRunner.tsx:334-345, 360, 394-401).
RunCleanup ==
    /\ run.pc = "cleaning"
    /\ IF isElectron
       THEN disk' = CleanupElectron(disk, maxResults, exiftoolWorks, clock) /\ db' = db
       ELSE db' = CleanupWeb(db, RunnerKeep) /\ disk' = disk
    /\ run' = LET r == [run EXCEPT !.cleaned = TRUE]
              IN  IF r.stopBranch THEN Finish([r EXCEPT !.shouldStop = FALSE]) ELSE Finish(r)
    /\ UNCHANGED <<settings, storagePath, isElectron, exiftoolWorks, maxResults, filenamePrefix,
                   clock, nextPred, nextUuid, last, index, legacyCalls, sidecarCalls>>

\* Variant: the retry starts whether or not the user chose to wait.
AfterRetryWaitNoCheck(r) == Enter(r, r.attempt + 1)

\* After the retry wait (PredictionRunner.tsx:386-398, 449-461): stop when
\* the user chose to wait for the current attempt, else the next attempt.
AfterRetryWait(r) ==
    IF r.shouldStop THEN Finish([r EXCEPT !.shouldStop = FALSE])
    ELSE Enter(r, r.attempt + 1)

\* The two-second wait before a retry ends (PredictionRunner.tsx:369-391, 431-460).
RunRetryWaitDone ==
    /\ run.pc = "retrywait"
    /\ run' = AfterRetryWait(run)
    /\ UNCHANGED RunFrame

\* The abort listener of the retry wait has rejected it
\* (PredictionRunner.tsx:372-385, 434-447).
RunRetryAborted ==
    /\ run.pc = "retryaborted"
    /\ run' = Finish(run)
    /\ UNCHANGED RunFrame

\* handleStopConfirmed (PredictionRunner.tsx:232-238)
HandleStopConfirmed ==
    /\ run.loading
    /\ run.controller
    /\ run' = [run EXCEPT !.aborted = TRUE, !.shouldStop = FALSE,
                          !.stoppedAt = IF run.pc = "saving"
                                        THEN sidecarCalls[RunnerProc].pc ELSE run.pc,
                          !.pc = IF run.pc = "retrywait" /\ ~run.aborted
                                 THEN "retryaborted" ELSE run.pc]
    /\ UNCHANGED RunFrame

\* handleStopWait (PredictionRunner.tsx:240-244)
HandleStopWait ==
    /\ run.loading
    /\ run' = [run EXCEPT !.shouldStop = TRUE]
    /\ UNCHANGED RunFrame

\* Jobs of the remote service that end with output.
RunOutputLists == {OutputsOf("http", n, f) : n \in 1..MaxOutputs, f \in 0..1}

InitRun ==
    /\ isElectron \in BOOLEAN
    /\ exiftoolWorks = TRUE
    /\ db = {}
    /\ disk = <<>>
    /\ maxResults = DefaultMaxResults
    /\ filenamePrefix = "output"
    /\ clock = 1
    /\ nextPred = 1
    /\ nextUuid = 1
    /\ last = Call("init", <<>>, <<>>)
    /\ index = <<>>
    /\ legacyCalls = NoLegacyCalls
    /\ sidecarCalls = NoSidecarCalls
    /\ run \in {[IdleRun EXCEPT !.maxRetries = n] : n \in 0..MaxRetries}
    /\ settings = NoSettings
    /\ storagePath = DefaultStoragePath

NextRun ==
    \/ RunStart
    \/ RunCreated
    \/ RunCreateFailed
    \/ RunPollTick
    \/ RunPollError
    \/ RunPollPending
    \/ \E status \in {"failed", "canceled"} : RunPollFailed(status)
    \/ \E outputs \in RunOutputLists : RunPollSucceeded(outputs)
    \/ \E rejectAt \in 0..MaxOutputs : RunSaveWeb(rejectAt)
    \/ SidecarList(RunnerProc)
    \/ SidecarWrite(RunnerProc)
    \/ SidecarMeta(RunnerProc)
    \/ RunSaveDone
    \/ RunCleanup
    \/ RunRetryWaitDone
    \/ RunRetryAborted
    \/ HandleStopConfirmed
    \/ HandleStopWait

SpecRun == InitRun /\ [][NextRun]_vars

\* The remote job reaches a terminal status or the request fails.
RunPollSettles ==
    \/ RunPollError
    \/ \E status \in {"failed", "canceled"} : RunPollFailed(status)
    \/ \E outputs \in RunOutputLists : RunPollSucceeded(outputs)

\* Every other awaited call or timer of the run settles.
RunAwaitSettles ==
    \/ RunCreated
    \/ RunCreateFailed
    \/ RunPollTick
    \/ \E rejectAt \in 0..MaxOutputs : RunSaveWeb(rejectAt)
    \/ SidecarList(RunnerProc)
    \/ SidecarWrite(RunnerProc)
    \/ SidecarMeta(RunnerProc)
    \/ RunSaveDone
    \/ RunCleanup
    \/ RunRetryWaitDone
    \/ RunRetryAborted

SpecRunFair == SpecRun /\ WF_vars(RunAwaitSettles) /\ SF_vars(RunPollSettles)

----------------------------------------------------------------------------
(* Properties *)

Min(a, b) == IF a <= b THEN a ELSE b

AllResults == GetResultsOf(NoFilter)

\* The cap cleanupOldResults works with: its argument in document-store
\* mode, the maxResults setting in file-system mode.
CapInForce == IF isElectron THEN maxResults ELSE last.arg

C2_UnlimitedDeletesNothing ==
    (last.op = "cleanupOldResults" /\ CapInForce = 0) => AllResults = last.ret.before

\* Input fields that writeMetadataToFile does not replace by a placeholder.
KeptKeys(input) == {k \in DOMAIN input : input[k].kind \notin {"data", "list"}}

\* C3: getResult(saveResult(x)) for x with a single inline output is a
\* result with the model, input (minus elided binary fields), type and
\* predictionId of x.
C3_RoundTrip ==
    (/\ last.op = "saveResult"
     /\ Len(last.arg.output) = 1
     /\ last.arg.output[1].scheme = "data") =>
        LET got == GetResultOf(last.ret.id)
        IN  /\ Len(got) = 1
            /\ got[1].model = last.arg.model
            /\ got[1].type = last.arg.type
            /\ got[1].predictionId = last.arg.predictionId
            /\ \A k \in KeptKeys(last.arg.input) :
                   k \in DOMAIN got[1].input /\ got[1].input[k] = last.arg.input[k]

AllFetched(outputs) ==
    \A i \in 1..Len(outputs) : outputs[i].scheme = "data" \/ outputs[i].fetch = "ok"

\* The store after deleteResult(id) on the current one.
AfterDelete(id) ==
    IF isElectron THEN GetResultsElectron(DeleteFile(disk, id), NoFilter, exiftoolWorks, clock)
    ELSE GetResultsWeb(DeleteWeb(db, id), NoFilter)

\* C4: a saveResult call with N > 1 fetched outputs yields N distinct listed
\* entries, and deleting any one of them leaves the other N - 1 listed.
C4_IndependentEntries ==
    (/\ last.op = "saveResult"
     /\ Len(last.arg.output) > 1
     /\ AllFetched(last.arg.output)) =>
        LET ids == SeqToSet(last.ret.saved)
            listed == {r.id : r \in SeqToSet(AllResults)}
        IN  /\ Cardinality(ids) = Len(last.arg.output)
            /\ ids \subseteq listed
            /\ \A id \in ids :
                   SeqToSet(AfterDelete(id)) = {r \in SeqToSet(AllResults) : r.id # id}

C6_FilterCorrect ==
    GetResultsOf([type |-> "video", model |-> ""])
        = SelectSeq(AllResults, LAMBDA r : r.type = "video")

\* The highest number carried by a listed name of this date and prefix.
MaxUsed(listed, date, prefix) ==
    Max({ParseInt(listed[i].num) :
            i \in {j \in 1..Len(listed) : listed[j].date = date /\ listed[j].prefix = prefix}}
        \cup {0})

\* C7: every save gets the number after the highest one present for its date
\* and prefix (001, 002, 003 from an empty directory; never a freed number).
C7_NextAfterMaximum ==
    last.op = "saveResult" =>
        \A i \in 1..Len(last.ret.writes) :
            LET w == last.ret.writes[i]
            IN  ParseInt(w.name.num) = MaxUsed(w.listed, w.name.date, w.name.prefix) + 1

\* C8: the name passed to fs.saveFile never names a file already in the
\* storage directory.
C8_NoOverwrite ==
    last.op = "saveResult" =>
        \A i \in 1..Len(last.ret.writes) : ~last.ret.writes[i].existed

\* A media file from which no provenance can be read: it carries none of
\* the tags the reader uses, or exiftool cannot be run at all.
Untagged(f) == IsMediaFile(f.name) /\ (f.tags = NoTags \/ ~exiftoolWorks)

C11_NoLostUpdate ==
    [][\A p \in Procs :
          /\ (LegacyCreateWrite(p) /\ Len(index) < LegacyLimit(maxResults))
                 => SeqToSet(index) \subseteq SeqToSet(index')
          /\ LegacyDeleteWrite(p)
                 => \A e \in SeqToSet(index) :
                        e.id # legacyCalls[p].id => e \in SeqToSet(index')]_vars

\* C12: no call of saveResultElectron writes over a file that is in the
\* directory when it writes; with two calls in progress, the files of one are
\* not replaced by the files of the other.
C12_NoReplacedFile ==
    \A p \in Procs : ~sidecarCalls[p].replaced

\* C13: a media file without sidecar tags that a record of metadata.json
\* names is listed by getResults() with the model, predictionId, createdAt
\* and type of that record.
C13_LegacyIndexRead ==
    \A k \in 1..Len(index) :
        \A f \in SeqToSet(index[k].output) :
            (f \in Names(disk) /\ Untagged(FileAt(disk, f))) =>
                \E r \in SeqToSet(GetResultsElectron(disk, NoFilter, exiftoolWorks, clock)) :
                    /\ r.id = f
                    /\ r.model = index[k].model
                    /\ r.predictionId = index[k].predictionId
                    /\ r.createdAt = index[k].createdAt
                    /\ r.type = index[k].type

\* C14: every entry that a getResults() call returns names a file that is
\* in the storage directory when the call returns.
C14_NoMissingFileListed ==
    \A p \in Procs :
        (sidecarCalls[p].op = "getResults" /\ sidecarCalls[p].pc = "done")
            => sidecarCalls[p].ghosts = {}

\* C15: once a deleteResult(id) call of the consolidated-index scheme has
\* returned, the index holds no record of id and the directory holds none of
\* the files of that record.
C15_BothHalvesRemoved ==
    \A p \in Procs :
        LET c == legacyCalls[p]
        IN  (c.op = "delete" /\ c.pc = "done") =>
                /\ c.id \notin IndexIds(index)
                /\ FilesOf(SelectSeq(c.meta, LAMBDA r : r.id = c.id)) \cap Names(disk) = {}

NewestFirst(rs) == \A k \in 1..(Len(rs) - 1) : rs[k].createdAt >= rs[k + 1].createdAt

\* C16: for every filter the sequence returned by getResults() is ordered
\* by non-increasing createdAt, in document-store mode, in file-system mode
\* and under the consolidated-index scheme.
C16_NewestFirst ==
    \A f \in Filters :
        /\ NewestFirst(GetResultsOf(f))
        /\ NewestFirst(LegacyGetResults(index, disk, f))

\* C17: in file-system mode getResult(id) sends no directory listing and no
\* metadata read that names a file other than id.
C17_ReadsOnlyItsFile ==
    (last.op = "getResult" /\ isElectron) =>
        \A k \in 1..Len(last.ret.requests) :
            /\ last.ret.requests[k].ipc # "fs:listFiles"
            /\ SeqToSet(last.ret.requests[k].files) \subseteq {last.arg}

\* C18: the input embedded by writeMetadataToFile holds no data: URL and no
\* array of data: URLs under any field name, cut short or not.
C18_NoRawBinary ==
    last.op = "writeMetadataToFile" =>
        \A k \in DOMAIN last.ret : last.ret[k].kind \notin {"data", "list"}


\* C19: when the document store rejects the write of an output, the run ends
\* showing a failed prediction that carries the error, and the rejected
\* output has no record.
C19_QuotaSurfaced ==
    LET c == sidecarCalls[RunnerProc]
    IN  /\ (run.pc = "ended" /\ run.rejected)
               => (run.status = "failed" /\ run.error = "QuotaExceededError")
        /\ (~isElectron /\ c.op = "saveResult" /\ c.pc = "done" /\ c.i > 0)
               => Len(c.saved) < c.i

\* The outputs of a job whose download succeeds.
Fetched(outputs) == SelectSeq(outputs, LAMBDA o : ~Failed(o))

\* C20: once saveResult has been called for a succeeded job, handleRun goes
\* on only after the call has tried every output and, for every file it saved,
\* the metadata write, whether or not the user confirmed Stop meanwhile.
C20_SaveRunsToCompletion ==
    LET c == sidecarCalls[RunnerProc]
    IN  (isElectron /\ c.op = "saveResult" /\ run.pc \in {"cleaning", "ended"})
            => /\ c.pc = "done"
               /\ Len(c.saved) = Len(Fetched(c.result.output))
               /\ \A k \in 1..Len(c.saved) :
                      c.saved[k] \in Names(disk) => FileAt(disk, c.saved[k]).tags # NoTags

\* Stop was confirmed between the naming and the writing of a file, and the
\* run ended with every fetched output saved.
C20_Witness ==
    /\ isElectron
    /\ run.pc = "ended"
    /\ run.aborted
    /\ run.stoppedAt = "write"
    /\ Len(sidecarCalls[RunnerProc].saved) = MaxOutputs


C22_ZeroKeepsAll ==
    [][\A p \in Procs :
          (LegacyCreateTrim(p) /\ maxResults = 0)
              => /\ legacyCalls'[p].meta = legacyCalls[p].meta
                 /\ disk' = disk]_vars


\* C23: fs:getMaxResults returns the value last written to the settings by
\* setMaxResults, in the process that wrote it and in every later process
\* run, and the default only when no value was ever saved.
C23_PersistedCap ==
    last.op = "getMaxResults" =>
        last.ret = (IF settings.maxResults = <<>> THEN DefaultMaxResults
                    ELSE settings.maxResults[1])


\* C24: the number of a new file name is greater than the number of every
\* file already listed for the same date and prefix, whatever its extension.
C24_AboveEveryNumber ==
    last.op = "saveResult" =>
        \A i \in 1..Len(last.ret.writes) :
            LET w == last.ret.writes[i]
            IN  \A j \in 1..Len(w.listed) :
                    (w.listed[j].date = w.name.date /\ w.listed[j].prefix = w.name.prefix)
                        => ParseInt(w.name.num) > ParseInt(w.listed[j].num)


\* C25: once a prediction of the run has reached status succeeded, the run
\* makes no further createPrediction call.
C25_NoResubmission ==
    [][run.succeeded => run'.created = run.created]_vars

\* The run is over with the Run button back: loading false, no retry shown,
\* no abort controller held.
RunOver == run.pc = "ended" /\ ~run.loading /\ ~run.isRetrying /\ ~run.controller

\* C26: once the user has confirmed Stop, the run makes no further
\* createPrediction call, and it ends with loading false and the controller
\* reference cleared.
C26_AbortStops ==
    /\ [][run.aborted => run'.created = run.created]_vars
    /\ (run.aborted ~> (run.pc = "ended" /\ ~run.loading /\ ~run.controller))

\* Stop was confirmed during the wait before a retry, or while a poll
\* request was in flight, and the run is over.
C26_Witness ==
    /\ run.pc = "ended"
    /\ run.aborted
    /\ run.stoppedAt \in {"retrywait", "pollget"}
    /\ run.maxRetries > 0

\* C27: a run submits at most maxRetries + 1 predictions, and exactly one
\* when maxRetries is 0.
C27_BoundedRetry ==
    /\ run.created <= run.maxRetries + 1
    /\ (run.maxRetries = 0 /\ run.pc # "idle") => run.created = 1

\* A run that used every retry it was allowed.
C27_Witness ==
    /\ run.pc = "ended"
    /\ run.maxRetries = MaxRetries
    /\ run.created = run.maxRetries + 1

C29_RunTerminates == (run.pc # "idle") ~> RunOver

\* A run that is over after a retry.
C29_Witness ==
    /\ RunOver
    /\ run.attempt > 0


\* C30: in a batched metadata read every name that is in the directory gets
\* the record made from its own tags and creation time, whatever the state
\* of the other names of the batch.
C30_OwnRecord ==
    [][\A p \in Procs :
          SidecarGetRead(p) =>
              LET results == sidecarCalls'[p].returned
              IN  \A k \in 1..Len(results) :
                      results[k].id \in Names(disk) =>
                          results[k] = ResultOf(results[k].id,
                                                ReadOne(FileAt(disk, results[k].id),
                                                        exiftoolWorks, clock),
                                                clock)]_vars

====
